---- MODULE Spec2Model ----
(***************************************************************************)
(* Model of scripts/generate_assets.py: the asset catalog, the Gemini      *)
(* generation client, persistence, icon derivation and the driver main().  *)
(***************************************************************************)
EXTENDS Integers, Sequences, FiniteSets, TLC

\* ------------------------------------------------------------------ bounds
MaxPayloadLen == 4
MaxParts == 2

\* --------------------------------------------------------------- constants
\* requests.post(..., timeout=180)
RequestTimeout == 180
HttpOk == 200

\* Python's None, and an exception escaping a call, as values that are
\* distinct from every byte string (bytes are 0..255).
None == <<-1>>
Raised == <<-2>>

\* ----------------------------------------------------------------- catalog
\* IMAGE_PROMPTS: a dict, iterated in insertion (definition) order.
IMAGE_PROMPTS ==
    << "icon", "promo_small", "promo_large",
       "screenshot_popup", "screenshot_result", "screenshot_options" >>

CatalogIds == { IMAGE_PROMPTS[k] : k \in 1..Len(IMAGE_PROMPTS) }

\* config['filename'] of each entry
Filename(id) ==
    CASE id = "icon"               -> "icon128.png"
      [] id = "promo_small"        -> "promo_small_440x280.png"
      [] id = "promo_large"        -> "promo_large_920x680.png"
      [] id = "screenshot_popup"   -> "screenshot_popup_1280x800.png"
      [] id = "screenshot_result"  -> "screenshot_result_1280x800.png"
      [] id = "screenshot_options" -> "screenshot_options_1280x800.png"

\* choices of --target
TargetChoices == CatalogIds \cup {"all"}

\* main() without the --target selection
TargetsWholeCatalog(target) == IMAGE_PROMPTS

\* the dict `targets` built by main(), as its key sequence
Targets(target) == IF target = "all" THEN IMAGE_PROMPTS ELSE << target >>

\* ------------------------------------------------------------------ base64
\* base64.b64decode(s) with validate=False, i.e. binascii.a2b_base64 in its
\* non-strict mode: characters outside the alphabet are discarded, a pad
\* sequence that completes a quad ends the parse, and leftover characters
\* of an incomplete quad raise binascii.Error.
B64Pad == "="

B64Value(c) ==
    CASE c = "A" -> 0
      [] c = "Q" -> 16
      [] c = "/" -> 63
      [] OTHER   -> 64

RECURSIVE a2b_base64(_, _, _, _, _, _)
a2b_base64(s, k, quad_pos, leftchar, pads, out) ==
    IF k > Len(s)
    THEN IF quad_pos # 0 THEN Raised ELSE out
    ELSE IF s[k] = B64Pad
    THEN IF quad_pos >= 2 /\ quad_pos + pads + 1 >= 4
         THEN out
         ELSE a2b_base64(s, k + 1, quad_pos, leftchar, pads + 1, out)
    ELSE LET v == B64Value(s[k]) IN
         IF v >= 64
         THEN a2b_base64(s, k + 1, quad_pos, leftchar, pads, out)
         ELSE CASE quad_pos = 0 ->
                     a2b_base64(s, k + 1, 1, v, 0, out)
                [] quad_pos = 1 ->
                     a2b_base64(s, k + 1, 2, v % 16, 0,
                                Append(out, (leftchar * 4 + v \div 16) % 256))
                [] quad_pos = 2 ->
                     a2b_base64(s, k + 1, 3, v % 4, 0,
                                Append(out, (leftchar * 16 + v \div 4) % 256))
                [] quad_pos = 3 ->
                     a2b_base64(s, k + 1, 0, 0, 0,
                                Append(out, (leftchar * 64 + v) % 256))

b64decode(s) == a2b_base64(s, 1, 0, 0, 0, << >>)

\* -------------------------------------------------------------- HTTP model
\* What requests.post(url, ..., timeout=180) can produce: a response with a
\* status code and a body, or an exception (no response within the timeout).
SeqsUpTo(S, n) == UNION { [1..k -> S] : k \in 0..n }

\* inlineData.data strings: every string over PayloadChars up to the bound,
\* and samples with a character outside the base64 alphabet.
PayloadChars == { "Q", "=" }

ExtraPayloads == { << "!" >>, << "Q", "!", "Q", "=", "=" >>, << "/", "/", "A", "=" >> }

Payloads == SeqsUpTo(PayloadChars, MaxPayloadLen) \cup ExtraPayloads

\* One element of candidates[0].content.parts:
\*   text          {"text": ...}                    no 'inlineData' key
\*   inlineNoData  {"inlineData": {}}               .get('data') is None
\*   inlineBad     {"inlineData": <not an object>}  .get raises
\*   inline        {"inlineData": {"data": <string>}}
PartsOver(payloads) ==
    [ kind : {"text", "inlineNoData", "inlineBad"}, data : { << >> } ]
        \cup [ kind : {"inline"}, data : payloads ]

\* A response body:
\*   notjson          not JSON at all
\*   nondict          JSON, but not an object
\*   nocandidates     an object without 'candidates'
\*   emptycandidates  'candidates' is an empty list
\*   badcandidate     candidates[0] is not an object
\*   parts            candidates[0].content.parts is the list `parts`
\*                    (a missing 'content' or 'parts' is the empty list)
BodiesOver(payloads, n) ==
    [ shape : {"notjson", "nondict", "nocandidates", "emptycandidates",
               "badcandidate"},
      parts : { << >> } ]
        \cup [ shape : {"parts"}, parts : SeqsUpTo(PartsOver(payloads), n) ]

ErrorStatuses == { 429, 500 }

ErrorBodies ==
    { [ shape |-> "notjson", parts |-> << >> ],
      [ shape |-> "parts",
        parts |-> << [ kind |-> "inline", data |-> << "Q", "Q", "=", "=" >> ] >> ] }

TimeoutOutcome == [ kind |-> "timeout", status |-> 0,
                    body |-> [ shape |-> "notjson", parts |-> << >> ] ]

OutcomesOver(payloads, n) ==
    { TimeoutOutcome }
        \cup [ kind : {"response"}, status : {HttpOk},
               body : BodiesOver(payloads, n) ]
        \cup [ kind : {"response"}, status : ErrorStatuses, body : ErrorBodies ]

\* every outcome within the bounds: the inputs of the client on its own
HttpOutcomes == OutcomesOver(Payloads, MaxParts)

\* The outcomes the driver's runs draw from: every body with at most one
\* part over DriverPayloads, and the two-part bodies in which the first part
\* with an 'inlineData' key is not the first part, or not the only one.
DriverPayloads ==
    { << >>, << "=" >>, << "Q", "Q" >>, << "Q", "Q", "=", "=" >>,
      << "Q", "Q", "Q", "=" >> }

InlinePart(data) == [ kind |-> "inline", data |-> data ]

PlainPart(kind) == [ kind |-> kind, data |-> << >> ]

DriverTwoParts ==
    { << PlainPart("text"), InlinePart(<< "Q", "Q", "=", "=" >>) >>,
      << PlainPart("inlineNoData"), InlinePart(<< "Q", "Q", "=", "=" >>) >>,
      << InlinePart(<< "Q", "Q", "=", "=" >>), InlinePart(<< "Q", "Q", "Q", "=" >>) >>,
      << InlinePart(<< "Q", "Q", "Q", "=" >>), PlainPart("text") >> }

DriverOutcomes ==
    { TimeoutOutcome }
        \cup [ kind : {"response"}, status : {HttpOk},
               body : BodiesOver(DriverPayloads, 1)
                        \cup [ shape : {"parts"}, parts : DriverTwoParts ] ]
        \cup [ kind : {"response"}, status : ErrorStatuses, body : ErrorBodies ]

\* ------------------------------------------------------------------ client
\* `image_data is None` in place of `not image_data`
IsNone(x) == x = None

\* Python truthiness of `not image_data` for None and b''
Falsy(x) == x = None \/ x = << >>

\* response.json() raises on a body that is not JSON, and otherwise returns
\* the parsed body
JsonRaises(body) == body.shape = "notjson"

\* the loop without its break on a part that holds no data
RECURSIVE FindInlineDataSkipping(_, _)
FindInlineDataSkipping(parts, k) ==
    IF k > Len(parts) THEN [ tag |-> "none", data |-> << >> ]
    ELSE IF parts[k].kind = "inline"
         THEN [ tag |-> "str", data |-> parts[k].data ]
         ELSE FindInlineDataSkipping(parts, k + 1)

\* the loop `for part in parts: if 'inlineData' in part: ...; break`:
\* tag "none" is image_data = None (no part has the key, or the first part
\* that has it holds no 'data'), "str" the data string, "raised" an exception
RECURSIVE FindInlineData(_, _)
FindInlineData(parts, k) ==
    IF k > Len(parts) THEN [ tag |-> "none", data |-> << >> ]
    ELSE CASE parts[k].kind = "text" ->
                FindInlineData(parts, k + 1)
           [] parts[k].kind = "inlineNoData" ->
                [ tag |-> "none", data |-> << >> ]
           [] parts[k].kind = "inlineBad" ->
                [ tag |-> "raised", data |-> << >> ]
           [] parts[k].kind = "inline" ->
                [ tag |-> "str", data |-> parts[k].data ]

\* the body of the try block, an exception shown as Raised
ExtractImage(result) ==
    CASE result.shape = "nondict"         -> Raised
      [] result.shape = "nocandidates"    -> None
      [] result.shape = "emptycandidates" -> None
      [] result.shape = "badcandidate"    -> Raised
      [] result.shape = "parts" ->
            LET image_data == FindInlineData(result.parts, 1) IN
            CASE image_data.tag = "raised" -> Raised
              [] image_data.tag = "none"   -> None
              [] image_data.tag = "str"    ->
                    IF image_data.data = << >> THEN None
                    ELSE b64decode(image_data.data)

\* try: ... except Exception: return None
TryExtractImage(result) ==
    LET r == ExtractImage(result) IN IF r = Raised THEN None ELSE r

\* generate_image_with_gemini without the status check
generate_ignoring_status(outcome) ==
    IF outcome.kind = "timeout" THEN Raised
    ELSE IF JsonRaises(outcome.body) THEN Raised
    ELSE TryExtractImage(outcome.body)

\* generate_image_with_gemini: None, the decoded bytes, or Raised when an
\* exception leaves the function
generate_image_with_gemini(outcome) ==
    IF outcome.kind = "timeout" THEN Raised
    ELSE IF outcome.status # HttpOk THEN None
    ELSE IF JsonRaises(outcome.body) THEN Raised
    ELSE TryExtractImage(outcome.body)

\* ------------------------------------------------------------------- state
VARIABLES
    apiKey,       \* GEMINI_API_KEY is set in the environment
    list_models,  \* args.list_models
    target,       \* args.target
    pc,           \* position of the run
    i,            \* position of the for loop in `targets` (1-based)
    results,      \* main's dict `results`: image_id -> [success, filename]
    icon_path,    \* main's icon_path: None or the filename saved for "icon"
    files,        \* OUTPUT_DIR: filename -> bytes
    icons,        \* sizes of the derived icon files written by this run
    http,         \* outcome of requests.post for the entry being processed
    image_data,   \* value returned by the last generate_image_with_gemini
    issued,       \* history: image ids a request was issued for, in order
    rejected,     \* history: image ids whose response had a status # 200
    resizeCalls,  \* history: number of calls of create_icon_sizes
    printed       \* the "N/M" of the summary, << >> before it is printed

vars == << apiKey, list_models, target, pc, i, results, icon_path, files,
           icons, http, image_data, issued, rejected, resizeCalls, printed >>

NoPath == ""

\* contents a file of an earlier run may hold
OldBytes == << 79 >>

\* OUTPUT_DIR before the run: empty, or holding every catalog file
InitialDirs ==
    { << >>,
      [ f \in { Filename(id) : id \in CatalogIds } |-> OldBytes ] }

NoOutcome == [ kind |-> "none", status |-> 0,
               body |-> [ shape |-> "notjson", parts |-> << >> ] ]

Init ==
    /\ apiKey \in BOOLEAN
    /\ list_models \in BOOLEAN
    /\ target \in TargetChoices
    /\ pc = "import"
    /\ i = 1
    /\ results = << >>
    /\ icon_path = NoPath
    /\ files \in InitialDirs
    /\ icons = {}
    /\ http = NoOutcome
    /\ image_data = None
    /\ issued = << >>
    /\ rejected = {}
    /\ resizeCalls = 0
    /\ printed = << >>

targets == Targets(target)

\* ----------------------------------------------------------------- actions
\* module level: the credential check
LoadModule ==
    /\ pc = "import"
    /\ pc' = IF apiKey THEN "main" ELSE "exit1"
    /\ UNCHANGED << apiKey, list_models, target, i, results, icon_path, files,
                    icons, http, image_data, issued, rejected, resizeCalls,
                    printed >>

\* main() up to the for loop
StartMain ==
    /\ pc = "main"
    /\ pc' = IF list_models THEN "exit0" ELSE "loop"
    /\ i' = 1
    /\ results' = << >>
    /\ icon_path' = NoPath
    /\ UNCHANGED << apiKey, list_models, target, files, icons, http,
                    image_data, issued, rejected, resizeCalls, printed >>

\* the loop takes the next entry and generate_image_with_gemini posts the
\* request for it
PostRequest ==
    /\ pc = "loop"
    /\ i <= Len(targets)
    /\ issued' = Append(issued, targets[i])
    /\ pc' = "post"
    /\ UNCHANGED << apiKey, list_models, target, i, results, icon_path, files,
                    icons, http, image_data, rejected, resizeCalls, printed >>

\* requests.post returns or raises, and generate_image_with_gemini runs to
\* its end: an exception leaving it leaves main() too
ReturnFrom(outcome) ==
    LET r == generate_image_with_gemini(outcome) IN
    /\ http' = outcome
    /\ rejected' = IF outcome.kind = "response" /\ outcome.status # HttpOk
                   THEN rejected \cup { targets[i] } ELSE rejected
    /\ IF r = Raised
       THEN pc' = "aborted" /\ UNCHANGED image_data
       ELSE pc' = "generated" /\ image_data' = r

GenerateImage ==
    /\ pc = "post"
    /\ \E outcome \in DriverOutcomes : ReturnFrom(outcome)
    /\ UNCHANGED << apiKey, list_models, target, i, results, icon_path, files,
                    icons, issued, resizeCalls, printed >>

\* save_image(image_data, filename): open(filepath, 'wb') truncates the file
\* and write() stores the bytes; n is the number of bytes that reach the
\* file, -1 when open() itself fails. Fewer than all is an OSError.
WriteOutcomes(data) == -1 .. Len(data)

\* open(filepath, 'ab') in place of 'wb'
FileAfterAppend(data, filename, n) ==
    IF n = -1 THEN files
    ELSE [ f \in DOMAIN files \cup { filename } |->
             IF f = filename
             THEN (IF f \in DOMAIN files THEN files[f] ELSE << >>)
                      \o SubSeq(data, 1, n)
             ELSE files[f] ]

FileAfterWrite(data, filename, n) ==
    IF n = -1 THEN files
    ELSE [ f \in DOMAIN files \cup { filename } |->
             IF f = filename THEN SubSeq(data, 1, n) ELSE files[f] ]

save_image(data, filename, n) == files' = FileAfterWrite(data, filename, n)

\* results[image_id] = {...}
Record(image_id, entry) ==
    [ k \in DOMAIN results \cup { image_id } |->
        IF k = image_id THEN entry ELSE results[k] ]

FailureEntry == [ success |-> FALSE, filename |-> "" ]

SuccessEntry(image_id) == [ success |-> TRUE, filename |-> Filename(image_id) ]

\* the rest of the loop body: `if not image_data` ... `icon_path = filepath`;
\* the response object does not outlive the iteration
RecordOutcome ==
    /\ pc = "generated"
    /\ LET image_id == targets[i] IN
       IF Falsy(image_data)
       THEN /\ results' = Record(image_id, FailureEntry)
            /\ i' = i + 1
            /\ pc' = "loop"
            /\ UNCHANGED << files, icon_path >>
       ELSE \E n \in WriteOutcomes(image_data) :
              /\ save_image(image_data, Filename(image_id), n)
              /\ IF n = Len(image_data)
                 THEN /\ results' = Record(image_id, SuccessEntry(image_id))
                      /\ icon_path' = IF image_id = "icon"
                                      THEN Filename(image_id) ELSE icon_path
                      /\ i' = i + 1
                      /\ pc' = "loop"
                 ELSE /\ pc' = "aborted"
                      /\ UNCHANGED << results, icon_path, i >>
    /\ http' = NoOutcome
    /\ UNCHANGED << apiKey, list_models, target, icons, image_data, issued,
                    rejected, resizeCalls, printed >>

\* create_icon_sizes(base_icon_path): the sizes it derives, in order
IconSizes == << 16, 32, 48 >>

\* What a call of create_icon_sizes leaves behind: without Pillow nothing
\* (ImportError is caught); with Pillow the first k sizes, all of them when
\* nothing fails, fewer when Image.open, resize or save raises.
create_icon_sizes(pillow, k) ==
    /\ icons' = IF pillow THEN icons \cup { IconSizes[j] : j \in 1..k }
                ELSE icons
    /\ pc' = IF pillow /\ k < Len(IconSizes) THEN "aborted" ELSE "summary"

\* icon_path.exists()
Exists(path) == path \in DOMAIN files

\* `if icon_path and icon_path.exists()`
ShouldResizeLeftoverIcon == Exists(Filename("icon"))

ShouldResize == icon_path # NoPath /\ Exists(icon_path)

\* after the loop: `if icon_path and icon_path.exists(): create_icon_sizes`
ResizeIcons ==
    /\ pc = "loop"
    /\ i > Len(targets)
    /\ IF ShouldResize
       THEN /\ resizeCalls' = resizeCalls + 1
            /\ \E pillow \in BOOLEAN, k \in 0..Len(IconSizes) :
                 create_icon_sizes(pillow, k)
       ELSE /\ pc' = "summary"
            /\ UNCHANGED << icons, resizeCalls >>
    /\ UNCHANGED << apiKey, list_models, target, i, results, icon_path, files,
                    http, image_data, issued, rejected, printed >>

\* the summary loop over results.items()
success_count == Cardinality({ k \in DOMAIN results : results[k].success })

\* the denominator of the printed tally
TallyTotal == Len(IMAGE_PROMPTS)

Summary ==
    /\ pc = "summary"
    /\ printed' = << success_count, TallyTotal >>
    /\ pc' = "done"
    /\ UNCHANGED << apiKey, list_models, target, i, results, icon_path, files,
                    icons, http, image_data, issued, rejected, resizeCalls >>

Next ==
    \/ LoadModule
    \/ StartMain
    \/ PostRequest
    \/ GenerateImage
    \/ RecordOutcome
    \/ ResizeIcons
    \/ Summary

Spec == Init /\ [][Next]_vars

\* ------------------------------------------------- the client on its own
\* generate_image_with_gemini applied to every outcome within the bounds
InitClient ==
    /\ apiKey = TRUE
    /\ list_models = FALSE
    /\ target = "icon"
    /\ pc = "client"
    /\ i = 1
    /\ results = << >>
    /\ icon_path = NoPath
    /\ files = << >>
    /\ icons = {}
    /\ http \in HttpOutcomes
    /\ image_data = None
    /\ issued = << >>
    /\ rejected = {}
    /\ resizeCalls = 0
    /\ printed = << >>

ClientCall ==
    /\ pc = "client"
    /\ image_data' = generate_image_with_gemini(http)
    /\ pc' = "returned"
    /\ UNCHANGED << apiKey, list_models, target, i, results, icon_path, files,
                    icons, http, issued, rejected, resizeCalls, printed >>

NextClient == ClientCall

SpecClient == InitClient /\ [][NextClient]_vars

\* ================================================================== claims
Count(seq, x) == Cardinality({ k \in 1..Len(seq) : seq[k] = x })

IsPrefix(s, t) == Len(s) <= Len(t) /\ SubSeq(t, 1, Len(s)) = s

Requested == { targets[k] : k \in 1..Len(targets) }

Succeeded(id) == id \in DOMAIN results /\ results[id].success

FailedEntry(id) == id \in DOMAIN results /\ ~results[id].success

Rejected(o) == o.kind = "response" /\ o.status # 200

\* the asset the loop is working on, between the request and its outcome
InFlight == pc \in { "post", "generated" }

\* ------------------------------------------------------------------- C1
\* C1: when main() has printed its summary, the tally "N/M" has N = the
\* number of requested entries that succeeded and M = the number of
\* requested entries; a successful run for the single target "icon"
\* prints 1/1.
C1_TallyCountsRequested ==
    pc = "done" =>
        /\ printed = << Cardinality({ id \in Requested : Succeeded(id) }),
                        Cardinality(Requested) >>
        /\ (target = "icon" /\ Succeeded("icon") => printed = << 1, 1 >>)

\* ------------------------------------------------------------------- C2
\* C2: a request that times out is treated as a failure of that asset: the
\* client hands the driver an absent result and the run goes on, it is
\* never aborted by the timeout.
C2_TimeoutIsAFailure ==
    http.kind = "timeout" =>
        pc = "generated" /\ image_data = None

\* ------------------------------------------------------------------- C3
\* C3: for every response with status 200, whatever its body,
\* generate_image_with_gemini returns bytes or None; no exception leaves it.
C3_NoParseFailurePropagates ==
    pc = "returned" /\ http.kind = "response" /\ http.status = 200
        => image_data # Raised

\* ------------------------------------------------------------------- C4
\* what holds in every state of an entry whose response had a status other
\* than 200, and at the summary of a run that had such entries
C4_RejectedState ==
    /\ \A id \in CatalogIds : Count(issued, id) <= 1
    /\ pc = "generated" /\ Rejected(http) => image_data = None
    /\ \A id \in rejected :
          /\ id \in Requested
          /\ (id \in DOMAIN results \/ (InFlight /\ targets[i] = id))
          /\ ~Succeeded(id)
    /\ pc \in { "summary", "done" } =>
          /\ \A id \in Requested : Count(issued, id) = 1
          /\ \A id \in rejected : FailedEntry(id)
    /\ pc = "done" =>
          /\ printed[1] = Cardinality({ id \in Requested : Succeeded(id) })
          /\ printed[1] <= Cardinality(Requested \ rejected)

\* the step the driver takes from such a response
C4_RejectedStep ==
    pc = "generated" /\ Rejected(http) =>
        /\ targets[i] \in DOMAIN results'
        /\ ~results'[targets[i]].success
        /\ pc' = "loop"
        /\ i' = i + 1
        /\ issued' = issued

\* C4: a response with a status other than 200 gives an absent result with
\* no second request for that entry; the entry is recorded as failed and
\* the loop goes on to the next entry; at the summary every requested entry
\* has had its request, each entry that got such a response is recorded as
\* failed, and the printed count of successes leaves it out.
C4_NonOkStatusFailsEntryAndContinues ==
    [] C4_RejectedState /\ [][C4_RejectedStep]_vars

C4_Witness ==
    /\ pc = "done"
    /\ target = "all"
    /\ rejected = { "promo_small" }
    /\ printed = << 5, 6 >>
    /\ Len(issued) = 6

\* ------------------------------------------------------------------- C5
\* C5: the entries a request is issued for are the requested ones, in
\* order: always a prefix of them, and all of them once the loop is over;
\* for a single target that one entry alone, for "all" the six catalog
\* entries once each in the order of their definition.
C5_IssuedIsRequestedSubset ==
    LET expected ==
          IF target = "all"
          THEN << "icon", "promo_small", "promo_large", "screenshot_popup",
                  "screenshot_result", "screenshot_options" >>
          ELSE << target >>
    IN /\ IsPrefix(issued, expected)
       /\ pc \in { "summary", "done" } => issued = expected
       /\ pc = "loop" /\ i > Len(targets) => issued = expected

C5_Witness ==
    /\ pc = "done"
    /\ target = "all"
    /\ issued = IMAGE_PROMPTS
    /\ printed[1] = 3

\* ------------------------------------------------------------------- C6
\* C6: create_icon_sizes is called at most once in a run, and only when the
\* loop has gone through every requested entry and "icon" was requested
\* and recorded as success in this run.
C6_IconDerivationOnlyAfterIconSuccess ==
    /\ resizeCalls <= 1
    /\ resizeCalls = 1 =>
          /\ pc \in { "summary", "done", "aborted" }
          /\ issued = targets
          /\ \A id \in Requested : id \in DOMAIN results
          /\ "icon" \in Requested
          /\ Succeeded("icon")
    /\ icons # {} => resizeCalls = 1

C6_Witness ==
    /\ pc = "done"
    /\ target = "all"
    /\ resizeCalls = 1
    /\ icons = { 16, 32, 48 }
    /\ FailedEntry("promo_large")

\* ------------------------------------------------------------------- C7
\* the parts of a 200 response that has a parts list, << >> otherwise
PartsOf(o) ==
    IF o.kind = "response" /\ o.status = 200 /\ o.body.shape = "parts"
    THEN o.body.parts ELSE << >>

\* positions of the parts that have an 'inlineData' field
Keyed(parts) == { k \in 1..Len(parts) : parts[k].kind # "text" }

\* positions of the parts that carry an inlineData.data payload
Carrying(parts) == { k \in 1..Len(parts) : parts[k].kind = "inline" }

Min(S) == CHOOSE k \in S : \A j \in S : k <= j

\* the first part with an 'inlineData' field carries a payload that
\* base64-decodes
ValidFirstPayload(o) ==
    LET parts == PartsOf(o) IN
    /\ Keyed(parts) # {}
    /\ parts[Min(Keyed(parts))].kind = "inline"
    /\ b64decode(parts[Min(Keyed(parts))].data) # Raised

FirstPayloadBytes(o) ==
    LET parts == PartsOf(o) IN b64decode(parts[Min(Keyed(parts))].data)

\* the entry in hand is recorded as success and its file holds `bytes`
SavedAs(bytes) ==
    /\ targets[i] \in DOMAIN results'
    /\ results'[targets[i]].success
    /\ results'[targets[i]].filename = Filename(targets[i])
    /\ Filename(targets[i]) \in DOMAIN files'
    /\ files'[Filename(targets[i])] = bytes
    /\ \A f \in DOMAIN files \ { Filename(targets[i]) } :
          f \in DOMAIN files' /\ files'[f] = files[f]

\* C7 as stated: for every valid base64 payload in the first inline-data
\* part of a 200 response, the entry is recorded as success and its file
\* holds exactly the decoded payload (when the write itself does not fail).
C7_EveryValidPayloadIsSaved ==
    [][ pc = "generated" /\ ValidFirstPayload(http) /\ pc' # "aborted"
          => SavedAs(FirstPayloadBytes(http)) ]_vars

\* C7, amended: the same for every valid payload that decodes to at least
\* one byte; a payload that decodes to no bytes is recorded as failed and
\* nothing is written.
C7_NonEmptyPayloadIsSavedExactly ==
    [][ /\ pc = "generated" /\ ValidFirstPayload(http) /\ pc' # "aborted"
          => IF FirstPayloadBytes(http) # << >>
             THEN SavedAs(FirstPayloadBytes(http))
             ELSE /\ targets[i] \in DOMAIN results'
                  /\ ~results'[targets[i]].success
                  /\ files' = files
        /\ pc = "generated" /\ PartsOf(http) = << InlinePart(<< "Q", "Q", "Q", "=" >>) >>
             /\ pc' # "aborted"
          => SavedAs(<< 65, 4 >>) ]_vars

C7_Witness ==
    /\ pc = "loop"
    /\ target = "promo_small"
    /\ i = 2
    /\ Succeeded("promo_small")
    /\ DOMAIN files = { Filename(id) : id \in CatalogIds }
    /\ files[Filename("promo_small")] = << 65, 4 >>
    /\ files[Filename("icon")] = OldBytes

\* ------------------------------------------------------------------- C8
\* C8 as stated: for a 200 response, whenever at least one part carries an
\* inlineData.data payload (here: one that decodes to at least one byte),
\* the result is the decoded bytes of the first such part.
C8_FirstCarryingPartDecides ==
    LET parts == PartsOf(http) IN
    pc = "returned" /\ Carrying(parts) # {}
        /\ b64decode(parts[Min(Carrying(parts))].data) \notin { Raised, << >> }
      => image_data = b64decode(parts[Min(Carrying(parts))].data)

\* C8, amended: for a 200 response with a JSON body the result is decided
\* by the first part that has an inlineData field, whether or not it
\* carries data: the decoded bytes when that part's data is a non-empty
\* string that base64-decodes, and absent when it is missing, empty or
\* undecodable, as when there is no candidate, no parts or no part with an
\* inlineData field; never an exception.
C8_FirstKeyedPartDecides ==
    LET parts == PartsOf(http) IN
    pc = "returned" /\ http.kind = "response" /\ http.status = 200
        /\ http.body.shape # "notjson"
      => /\ image_data # Raised
         /\ http.body.shape # "parts" => image_data = None
         /\ http.body.shape = "parts" /\ Keyed(parts) = {} => image_data = None
         /\ http.body.shape = "parts" /\ Keyed(parts) # {} =>
               LET part == parts[Min(Keyed(parts))] IN
               IF part.kind = "inline" /\ part.data # << >>
                    /\ b64decode(part.data) # Raised
               THEN image_data = b64decode(part.data)
               ELSE image_data = None
         /\ parts = << PlainPart("text"), InlinePart(<< "Q", "Q", "=", "=" >>) >>
               => image_data = << 65 >>

C8_Witness ==
    /\ pc = "returned"
    /\ http.status = 200
    /\ PartsOf(http) = << PlainPart("text"), InlinePart(<< "Q", "Q", "=", "=" >>) >>
    /\ image_data = << 65 >>

\* ------------------------------------------------------------------- C9
\* C9: no asset gets a second request, and when a run that passed the
\* credential check has come to its end, every requested asset has reached
\* Saved or Failed: it has exactly one recorded outcome.
C9_EveryAssetReachesSavedOrFailed ==
    /\ \A id \in CatalogIds : Count(issued, id) <= 1
    /\ pc \in { "done", "aborted" } =>
          \A id \in Requested : id \in DOMAIN results

\* ------------------------------------------------------------------ C10
\* a step that records a success writes the file; a step from an absent or
\* empty result records a failure and writes nothing
C10_Step ==
    /\ \A id \in CatalogIds :
          (id \in DOMAIN results' /\ results'[id].success /\ ~Succeeded(id))
            => /\ pc = "generated"
               /\ id = targets[i]
               /\ image_data \notin { None, << >> }
               /\ Filename(id) \in DOMAIN files'
               /\ files'[Filename(id)] = image_data
    /\ (pc = "generated" /\ image_data \in { None, << >> })
            => /\ targets[i] \in DOMAIN results'
               /\ ~results'[targets[i]].success
               /\ pc' = "loop"
               /\ files' = files
               /\ icons' = icons

\* C10: an entry becomes a success only in the step in which save_image
\* writes its file, with the generated bytes, and the file of a success
\* stays in place; an absent or empty result records the entry as failed
\* and leaves every file as it was.
C10_SuccessOnlyAfterWrite ==
    /\ [][C10_Step]_vars
    /\ [](\A id \in CatalogIds :
            Succeeded(id) => /\ Filename(id) \in DOMAIN files
                             /\ files[Filename(id)] # << >>)

C10_Witness ==
    /\ pc = "loop"
    /\ i = 2
    /\ image_data = << >>
    /\ FailedEntry(targets[1])
    /\ Filename(targets[1]) \in DOMAIN files
    /\ files[Filename(targets[1])] = OldBytes

====
